---- MODULE Spec2Model ----
(***************************************************************************)
(* Drug-mention pipeline: the matcher (find_drugs_in_title), the index     *)
(* builder (process_mentions) and the index merger (merge_mention_graphs)  *)
(* of python-pipeline/src/utils.py, over a Python heap in which dicts and  *)
(* lists are objects with identity, so that sharing between two indices    *)
(* is part of the state.                                                   *)
(*                                                                         *)
(* Strings are sequences of one-character strings.  A dict object is the   *)
(* sequence of its <<key, reference>> items in insertion order; a list     *)
(* object is the sequence of its elements.                                 *)
(***************************************************************************)
EXTENDS Integers, Sequences, FiniteSets, TLC

VARIABLES
    title,      \* matcher run: the title argument
    drug_list,  \* matcher run: the vocabulary argument
    found,      \* matcher run: the returned list (<<>> before the call)
    mpc,        \* matcher run: "idle" | "ready" | "done"
    heap,       \* object reference -> object (dict items or list elements)
    env,        \* program variable -> reference of its top-level dict, or None
    pre,        \* the heap as it was when the last operation was called
    lastOp,     \* the last operation: its kind, arguments and returned reference
    nMerges,    \* calls of merge_mention_graphs so far
    answers,    \* program variable -> the pairs the journal query returned for it
    run         \* pipeline run: its position (pc), its inputs and its data frames,
                \* or the task instances (ti) of a run of the DAG

vars == <<title, drug_list, found, mpc, heap, env, pre, lastOp, nMerges, answers, run>>

matchVars == <<title, drug_list, found, mpc>>
heapVars == <<heap, env, pre, lastOp, nMerges, answers, run>>

(***************************************************************************)
(* Bounds                                                                  *)
(***************************************************************************)
MaxTitleLen == 3
MaxVocab == 2
MaxRecords == 2
MaxMerges == 2
MaxNodes == 3
MaxRelatedNodes == 2
MaxBaseMentions == 2
MaxRows == 1
MaxDatedRows == 2

\* the elements of a sequence
Range(s) == {s[i] : i \in 1..Len(s)}

(***************************************************************************)
(* Characters and strings                                                  *)
(***************************************************************************)
Alphabet == {"a", "A", "b", "+", " "}

UpperLetters ==
    <<"A", "B", "C", "D", "E", "F", "G", "H", "I", "J", "K", "L", "M",
      "N", "O", "P", "Q", "R", "S", "T", "U", "V", "W", "X", "Y", "Z">>

LowerLetters ==
    <<"a", "b", "c", "d", "e", "f", "g", "h", "i", "j", "k", "l", "m",
      "n", "o", "p", "q", "r", "s", "t", "u", "v", "w", "x", "y", "z">>

\* the lower-case letter of each upper-case letter
LowerOf == [c \in Range(UpperLetters) |->
               LowerLetters[CHOOSE i \in 1..Len(UpperLetters) : UpperLetters[i] = c]]

\* str.lower() on one character: only the upper-case letters change
LowerChar(c) == IF c \in DOMAIN LowerOf THEN LowerOf[c] ELSE c

\* str.lower()
Lower(s) == [i \in 1..Len(s) |-> LowerChar(s[i])]

\* the regular-expression class \w
WordChars ==
    Range(UpperLetters) \cup Range(LowerLetters)
        \cup {"_", "0", "1", "2", "3", "4", "5", "6", "7", "8", "9"}

IsWordChar(c) == c \in WordChars

\* \b at offset p of s (0 <= p <= Len(s)): exactly one of the characters
\* before and after the offset is a word character; a string edge counts
\* as a non-word character
WordBoundary(s, p) ==
    (p > 0 /\ IsWordChar(s[p])) # (p < Len(s) /\ IsWordChar(s[p + 1]))

\* re.search(r'\b' + re.escape(pat) + r'\b', s): the escaped pattern matches
\* the literal text pat
\* a search for pat anywhere in s, inside longer words too
ReSearchAnywhere(pat, s) ==
    \E i \in 0..(Len(s) - Len(pat)) : SubSeq(s, i + 1, i + Len(pat)) = pat

ReSearchWord(pat, s) ==
    \E i \in 0..(Len(s) - Len(pat)) :
        /\ WordBoundary(s, i)
        /\ SubSeq(s, i + 1, i + Len(pat)) = pat
        /\ WordBoundary(s, i + Len(pat))

RECURSIVE FindLoopNewestFirst(_, _, _, _)
\* a loop that puts each match in front of the matches found so far
FindLoopNewestFirst(title_lower, drugs, i, drugs_found) ==
    IF i > Len(drugs) THEN drugs_found
    ELSE FindLoopNewestFirst(title_lower, drugs, i + 1,
                             IF ReSearchWord(Lower(drugs[i]), title_lower)
                             THEN <<drugs[i]>> \o drugs_found
                             ELSE drugs_found)

RECURSIVE FindLoop(_, _, _, _)
\* the loop of find_drugs_in_title from vocabulary position i on
FindLoop(title_lower, drugs, i, drugs_found) ==
    IF i > Len(drugs) THEN drugs_found
    ELSE FindLoop(title_lower, drugs, i + 1,
                  IF ReSearchWord(Lower(drugs[i]), title_lower)
                  THEN Append(drugs_found, drugs[i])
                  ELSE drugs_found)

find_drugs_in_title(t, drugs) == FindLoop(Lower(t), drugs, 1, <<>>)

\* Python's None, as the value of a program variable not yet assigned
None == <<>>

\* the program variables that hold an index
GraphVars == {"g1", "g2"}

(***************************************************************************)
(* Dates                                                                   *)
(***************************************************************************)
DigitChars == <<"0", "1", "2", "3", "4", "5", "6", "7", "8", "9">>

RECURSIVE Pow10(_)
Pow10(n) == IF n = 0 THEN 1 ELSE 10 * Pow10(n - 1)

\* '%0<w>d' % n
ZeroPad(n, w) == [i \in 1..w |-> DigitChars[((n \div Pow10(w - i)) % 10) + 1]]

\* a date written year-day-month
IsoFormatDayFirst(date) ==
    ZeroPad(date.year, 4) \o <<"-">> \o ZeroPad(date.day, 2) \o <<"-">> \o ZeroPad(date.month, 2)

\* str(row['date'].date()): datetime.date.__str__ is isoformat(), '%04d-%02d-%02d'
IsoFormat(date) ==
    ZeroPad(date.year, 4) \o <<"-">> \o ZeroPad(date.month, 2) \o <<"-">> \o ZeroPad(date.day, 2)

(***************************************************************************)
(* Dict objects: the sequence of <<key, reference>> items in insertion     *)
(* order                                                                   *)
(***************************************************************************)
\* d.keys()
Keys(d) == {d[i][1] : i \in 1..Len(d)}

\* key in d
Has(d, k) == \E i \in 1..Len(d) : d[i][1] = k

\* d[key], for a key of d
Get(d, k) == d[CHOOSE i \in 1..Len(d) : d[i][1] = k][2]

\* d[key] = ref: a new key goes last, an old key keeps its position
SetItem(d, k, ref) ==
    IF Has(d, k)
    THEN [i \in 1..Len(d) |-> IF d[i][1] = k THEN <<k, ref>> ELSE d[i]]
    ELSE Append(d, <<k, ref>>)

\* a new object: the reference of an object is the reference of the dict it
\* was created in followed by the key it was created under, which no other
\* object has because keys are never deleted
Alloc(h, ref, obj) == h @@ (ref :> obj)

(***************************************************************************)
(* process_mentions                                                        *)
(***************************************************************************)
SourceTags == {"PubMed", "Clinical Trial"}

\* a journal entry initialised with one tag only
InitialSourcesPubMedOnly == <<"PubMed">>

\* the keys of the literal {"PubMed": [], "Clinical Trial": []}
InitialSources == <<"PubMed", "Clinical Trial">>

\* the objects of {"PubMed": [], "Clinical Trial": []} created at reference j
NewSources(h, j) ==
    LET RECURSIVE Lists(_, _)
        Lists(hh, i) ==
            IF i > Len(InitialSources) THEN hh
            ELSE Lists(Alloc(hh, Append(j, InitialSources[i]), <<>>), i + 1)
    IN  Alloc(Lists(h, 1), j,
              [i \in 1..Len(InitialSources) |->
                  <<InitialSources[i], Append(j, InitialSources[i])>>])

RECURSIVE DrugLoop(_, _, _, _, _, _)
\* the inner loop "for drug in found_drugs" from position k on; st is
\* [h: the heap, raised: whether an exception has left the function, exc: the
\* class of that exception]; row is a function of the columns of the frame
DrugLoop(st, graph, row, found_drugs, k, source_name) ==
    IF st.raised \/ k > Len(found_drugs) THEN st
    ELSE
        LET h == st.h
            drug == found_drugs[k]
            \* if drug not in graph: graph[drug] = {}
            h1 == IF Has(h[graph], drug) THEN h
                  ELSE LET d == Append(graph, drug)
                       IN  [Alloc(h, d, <<>>) EXCEPT ![graph] = SetItem(@, drug, d)]
            dref == Get(h1[graph], drug)
            \* if row['journal'] not in graph[drug]:
            \*     graph[drug][row['journal']] = {"PubMed": [], "Clinical Trial": []}
            h2 == IF Has(h1[dref], row.journal) THEN h1
                  ELSE LET j == Append(dref, row.journal)
                       IN  [NewSources(h1, j) EXCEPT ![dref] = SetItem(@, row.journal, j)]
            jref == Get(h2[dref], row.journal)
            mention_entry == [title |-> row.title, date |-> IsoFormat(row.date)]
        IN  IF "journal" \notin DOMAIN row
            THEN [h |-> h1, raised |-> TRUE, exc |-> "KeyError"]   \* row['journal']
            ELSE IF "date" \notin DOMAIN row
            THEN [h |-> h2, raised |-> TRUE, exc |-> "KeyError"]   \* row['date']
            \* graph[drug][row['journal']][source_name].append(mention_entry)
            ELSE IF ~Has(h2[jref], source_name)
            THEN [h |-> h2, raised |-> TRUE, exc |-> "KeyError"]
            ELSE LET lref == Get(h2[jref], source_name)
                 IN  DrugLoop([h |-> [h2 EXCEPT ![lref] = Append(@, mention_entry)],
                               raised |-> FALSE, exc |-> "none"],
                              graph, row, found_drugs, k + 1, source_name)

RECURSIVE RowLoop(_, _, _, _, _, _)
\* the outer loop "for _, row in df.iterrows()" from row r on
RowLoop(st, graph, df, drugs_list, r, source_name) ==
    IF st.raised \/ r > Len(df) THEN st
    ELSE IF "title" \notin DOMAIN df[r]
    THEN [h |-> st.h, raised |-> TRUE, exc |-> "KeyError"]   \* row['title']
    ELSE RowLoop(DrugLoop(st, graph, df[r], find_drugs_in_title(df[r].title, drugs_list),
                          1, source_name),
                 graph, df, drugs_list, r + 1, source_name)

\* a function whose default index is one dict made once and used by every
\* call that passes no index
process_mentions_shared_default(h, df, drugs_list, source_name, graph, fresh) ==
    LET g == IF graph = None THEN <<"default">> ELSE graph
        h0 == IF g \in DOMAIN h THEN h ELSE Alloc(h, g, <<>>)
        st == RowLoop([h |-> h0, raised |-> FALSE, exc |-> "none"],
                      g, df, drugs_list, 1, source_name)
    IN  [h |-> st.h, raised |-> st.raised, exc |-> st.exc, ret |-> g]

\* process_mentions(df, drugs_list, source_name, graph) on heap h; graph is a
\* reference, or None with fresh the reference the new dict gets.  The result
\* is [h, raised, exc, ret: the returned reference].
process_mentions(h, df, drugs_list, source_name, graph, fresh) ==
    LET g == IF graph = None THEN fresh ELSE graph
        h0 == IF graph = None THEN Alloc(h, fresh, <<>>) ELSE h
        st == RowLoop([h |-> h0, raised |-> FALSE, exc |-> "none"],
                      g, df, drugs_list, 1, source_name)
    IN  [h |-> st.h, raised |-> st.raised, exc |-> st.exc, ret |-> g]

(***************************************************************************)
(* merge_mention_graphs                                                    *)
(***************************************************************************)
\* extend that skips the elements the list already has
ListExtendDedup(xs, ys) ==
    LET fresh(y) == y \notin Range(xs) IN xs \o SelectSeq(ys, fresh)

\* extend that puts the new elements in front
ListExtendFront(xs, ys) == ys \o xs

\* extend that does nothing when the two lists are equal
ListExtendOnce(xs, ys) == IF xs = ys THEN xs ELSE xs \o ys

\* xs.extend(ys), as the new elements of xs
ListExtend(xs, ys) == xs \o ys

\* an assignment of a subtree that is skipped
AdoptNothing(d, k, ref) == d

\* mentions_graph[...][k] = <subtree of graph_2>: the key is bound to the
\* very object graph_2 holds
Adopt(d, k, ref) == SetItem(d, k, ref)

RECURSIVE SourceLoop(_, _, _, _)
\* a loop that, where graph_2 has nothing to add to a list, removes the
\* list's key from the target
SourceLoopPruning(h, target, sources, i) ==
    IF i > Len(h[sources]) THEN h
    ELSE
        LET source == h[sources][i][1]
            mentions == h[sources][i][2]
            others(item) == item[1] # source
        IN  IF ~Has(h[target], source)
            THEN SourceLoop([h EXCEPT ![target] = Adopt(@, source, mentions)],
                            target, sources, i + 1)
            ELSE IF h[mentions] = <<>>
            THEN SourceLoop([h EXCEPT ![target] = SelectSeq(@, others)],
                            target, sources, i + 1)
            ELSE SourceLoop([h EXCEPT ![Get(h[target], source)] = ListExtend(@, h[mentions])],
                            target, sources, i + 1)

\* "for source, mentions in sources.items()" from item i on; target is the
\* object mentions_graph[drug][journal]
SourceLoop(h, target, sources, i) ==
    IF i > Len(h[sources]) THEN h
    ELSE
        LET source == h[sources][i][1]
            mentions == h[sources][i][2]
        IN  IF ~Has(h[target], source)
            THEN \* mentions_graph[drug][journal][source] = mentions
                 SourceLoop([h EXCEPT ![target] = Adopt(@, source, mentions)],
                            target, sources, i + 1)
            ELSE \* mentions_graph[drug][journal][source].extend(mentions)
                 SourceLoop([h EXCEPT ![Get(h[target], source)] = ListExtend(@, h[mentions])],
                            target, sources, i + 1)

RECURSIVE JournalLoop(_, _, _, _)
\* "for journal, sources in drug_mentions.items()" from item i on; target is
\* the object mentions_graph[drug]
JournalLoop(h, target, drug_mentions, i) ==
    IF i > Len(h[drug_mentions]) THEN h
    ELSE
        LET journal == h[drug_mentions][i][1]
            sources == h[drug_mentions][i][2]
        IN  IF ~Has(h[target], journal)
            THEN \* mentions_graph[drug][journal] = sources
                 JournalLoop([h EXCEPT ![target] = Adopt(@, journal, sources)],
                             target, drug_mentions, i + 1)
            ELSE JournalLoop(SourceLoop(h, Get(h[target], journal), sources, 1),
                             target, drug_mentions, i + 1)

RECURSIVE MergeLoop(_, _, _, _)
\* "for drug, drug_mentions in graph_2.items()" from item i on
MergeLoop(h, mentions_graph, graph_2, i) ==
    IF i > Len(h[graph_2]) THEN h
    ELSE
        LET drug == h[graph_2][i][1]
            drug_mentions == h[graph_2][i][2]
        IN  IF ~Has(h[mentions_graph], drug)
            THEN \* mentions_graph[drug] = drug_mentions
                 MergeLoop([h EXCEPT ![mentions_graph] = Adopt(@, drug, drug_mentions)],
                           mentions_graph, graph_2, i + 1)
            ELSE MergeLoop(JournalLoop(h, Get(h[mentions_graph], drug), drug_mentions, 1),
                           mentions_graph, graph_2, i + 1)

\* a merge that returns its second argument
merge_returns_second(h, graph_1, graph_2) ==
    [h |-> MergeLoop(h, graph_1, graph_2, 1), ret |-> graph_2]

\* merge_mention_graphs(graph_1, graph_2) on heap h: mentions_graph = graph_1
\* is the same object as graph_1, and it is what the function returns
merge_mention_graphs(h, graph_1, graph_2) ==
    [h |-> MergeLoop(h, graph_1, graph_2, 1), ret |-> graph_1]

(***************************************************************************)
(* The content of an index, as Python's == compares it: dicts by key and   *)
(* value whatever the insertion order, lists element by element            *)
(***************************************************************************)
SourcesValue(h, ref) == [s \in Keys(h[ref]) |-> h[Get(h[ref], s)]]

DrugValue(h, ref) == [j \in Keys(h[ref]) |-> SourcesValue(h, Get(h[ref], j))]

GraphValue(h, ref) == [d \in Keys(h[ref]) |-> DrugValue(h, Get(h[ref], d))]

\* the mutable objects (dicts and lists) reachable from the index at ref
Reach(h, ref) ==
    LET drugRefs == {Get(h[ref], d) : d \in Keys(h[ref])}
        journalRefs == UNION {{Get(h[x], j) : j \in Keys(h[x])} : x \in drugRefs}
        listRefs == UNION {{Get(h[x], s) : s \in Keys(h[x])} : x \in journalRefs}
    IN  {ref} \cup drugRefs \cup journalRefs \cup listRefs

(***************************************************************************)
(* The queries of adhoc_queries.py                                         *)
(***************************************************************************)
\* drug, as the journal query adds it to a journal's set
DrugNameAsWritten(drug) == drug

\* drug.lower()
DrugName(drug) == Lower(drug)

\* journal_drugs[journal].add(name) on a defaultdict(set): a journal seen for
\* the first time goes last
AddDrug(journal_drugs, journal, name) ==
    IF Has(journal_drugs, journal)
    THEN [i \in 1..Len(journal_drugs) |->
             IF journal_drugs[i][1] = journal
             THEN <<journal, journal_drugs[i][2] \cup {name}>>
             ELSE journal_drugs[i]]
    ELSE Append(journal_drugs, <<journal, {name}>>)

\* for journal in journals.keys(), from the k-th key on
RECURSIVE JournalKeysLoop(_, _, _, _)
JournalKeysLoop(journals, k, drug, journal_drugs) ==
    IF k > Len(journals) THEN journal_drugs
    ELSE JournalKeysLoop(journals, k + 1, drug,
                         AddDrug(journal_drugs, journals[k][1], DrugName(drug)))

\* for drug, journals in mentions_graph.items(), from the i-th item on
RECURSIVE DrugItemsLoop(_, _, _, _)
DrugItemsLoop(h, items, i, journal_drugs) ==
    IF i > Len(items) THEN journal_drugs
    ELSE DrugItemsLoop(h, items, i + 1,
                       JournalKeysLoop(h[items[i][2]], 1, items[i][1], journal_drugs))

\* max(journal_drugs, key=...) of a non-empty dict: the first key, in
\* iteration order, whose set is as large as any
MaxJournal(journal_drugs) ==
    LET size(i) == Cardinality(journal_drugs[i][2])
        best == CHOOSE i \in 1..Len(journal_drugs) :
                    /\ \A k \in 1..Len(journal_drugs) : size(k) <= size(i)
                    /\ \A k \in 1..(i - 1) : size(k) < size(i)
    IN  journal_drugs[best][1]

\* a query that answers (None, 0) when no journal was seen
get_journal_or_default(h, mentions_graph) ==
    LET journal_drugs == DrugItemsLoop(h, h[mentions_graph], 1, <<>>)
    IN  IF journal_drugs = <<>>
        THEN [h |-> h, raised |-> FALSE, ret |-> <<None, 0>>]
        ELSE LET max_journal == MaxJournal(journal_drugs)
             IN  [h |-> h, raised |-> FALSE,
                  ret |-> <<max_journal, Cardinality(Get(journal_drugs, max_journal))>>]

\* get_journal_with_most_unique_drugs(mentions_graph): max() of an empty
\* dict raises ValueError
get_journal_with_most_unique_drugs(h, mentions_graph) ==
    LET journal_drugs == DrugItemsLoop(h, h[mentions_graph], 1, <<>>)
    IN  IF journal_drugs = <<>>
        THEN [h |-> h, raised |-> TRUE, ret |-> None]
        ELSE LET max_journal == MaxJournal(journal_drugs)
             IN  [h |-> h, raised |-> FALSE,
                  ret |-> <<max_journal, Cardinality(Get(journal_drugs, max_journal))>>]

\* mentions_graph[drug]: KeyError when drug is not a key
JournalsOfSubscript(h, mentions_graph, drug) ==
    IF Has(h[mentions_graph], drug)
    THEN [raised |-> FALSE, items |-> h[Get(h[mentions_graph], drug)]]
    ELSE [raised |-> TRUE, items |-> <<>>]

\* mentions_graph.get(drug, {}): the items of the drug's dict, those of a new
\* empty dict when drug is not a key
JournalsOf(h, mentions_graph, drug) ==
    IF Has(h[mentions_graph], drug)
    THEN [raised |-> FALSE, items |-> h[Get(h[mentions_graph], drug)]]
    ELSE [raised |-> FALSE, items |-> <<>>]

\* node.get(tag, []): the elements of the tag's list, none when tag is not a key
SourceList(h, node, tag) ==
    IF Has(h[node], tag) THEN h[Get(h[node], tag)] ELSE <<>>

\* a test that looks at the PubMed list only
refereced_in_pubmed(h, mentions_graph, target_drug, journal) ==
    LET journals == JournalsOf(h, mentions_graph, target_drug)
    IN  IF journals.raised THEN [raised |-> TRUE, ret |-> FALSE]
        ELSE IF ~Has(journals.items, journal) THEN [raised |-> FALSE, ret |-> FALSE]
        ELSE [raised |-> FALSE,
              ret |-> SourceList(h, Get(journals.items, journal), "PubMed") # <<>>]

\* refereced_in_pubmed_only(target_drug, journal): the truth value of
\* "PubMed list and not Clinical Trial list"
refereced_in_pubmed_only(h, mentions_graph, target_drug, journal) ==
    LET journals == JournalsOf(h, mentions_graph, target_drug)
    IN  IF journals.raised THEN [raised |-> TRUE, ret |-> FALSE]
        ELSE IF ~Has(journals.items, journal) THEN [raised |-> FALSE, ret |-> FALSE]
        ELSE LET node == Get(journals.items, journal)
             IN  [raised |-> FALSE,
                  ret |-> /\ SourceList(h, node, "PubMed") # <<>>
                          /\ SourceList(h, node, "Clinical Trial") = <<>>]

\* a query that first makes sure the target is a key of the index
related_drugs_setdefault(h, mentions_graph, target_drug) ==
    LET h2 == IF Has(h[mentions_graph], target_drug) THEN h
              ELSE Alloc([h EXCEPT ![mentions_graph] =
                              SetItem(@, target_drug, Append(mentions_graph, target_drug))],
                         Append(mentions_graph, target_drug), <<>>)
    IN  [h |-> h2, raised |-> FALSE, ret |-> {}]

\* a query that takes every drug with an entry in one of the target's
\* PubMed-only journals, whatever the sources of that entry
related_drugs_same_journal(h, mentions_graph, target_drug) ==
    LET journals == JournalsOf(h, mentions_graph, target_drug)
        test(drug, journal) == refereced_in_pubmed_only(h, mentions_graph, drug, journal)
        pubmed_journals == {journal \in Keys(journals.items) : test(target_drug, journal).ret}
        others == Keys(h[mentions_graph]) \ {target_drug}
        related_drugs == {drug \in others : \E journal \in pubmed_journals :
                              Has(JournalsOf(h, mentions_graph, drug).items, journal)}
    IN  [h |-> h, raised |-> FALSE, ret |-> related_drugs]

\* get_related_drugs_in_pubmed_only(mentions_graph, target_drug)
get_related_drugs_in_pubmed_only(h, mentions_graph, target_drug) ==
    LET journals == JournalsOf(h, mentions_graph, target_drug)
        test(drug, journal) == refereced_in_pubmed_only(h, mentions_graph, drug, journal)
        pubmed_journals == {journal \in Keys(journals.items) : test(target_drug, journal).ret}
        others == Keys(h[mentions_graph]) \ {target_drug}
        related_drugs == {drug \in others : \E journal \in pubmed_journals :
                                                 test(drug, journal).ret}
        raised == \/ journals.raised
                  \/ \E journal \in Keys(journals.items) : test(target_drug, journal).raised
                  \/ \E drug \in others, journal \in pubmed_journals :
                         test(drug, journal).raised
    IN  IF raised THEN [h |-> h, raised |-> TRUE, ret |-> None]
        ELSE [h |-> h, raised |-> FALSE, ret |-> related_drugs]

(***************************************************************************)
(* Inputs of the matcher runs                                              *)
(***************************************************************************)
RECURSIVE StringsUpTo(_, _)
StringsUpTo(S, n) ==
    IF n = 0 THEN {<<>>}
    ELSE LET shorter == StringsUpTo(S, n - 1)
         IN  shorter \cup {Append(s, c) : s \in {x \in shorter : Len(x) = n - 1}, c \in S}

Titles == StringsUpTo(Alphabet, MaxTitleLen)

\* vocabulary entries: plain names, a name with an inner non-word character,
\* and names that begin or end with a non-word character
Entries == {<<"A">>, <<"a", "b">>, <<"a", "+", "b">>, <<"a", "+">>, <<"+", "a">>}

Vocabularies == StringsUpTo(Entries, MaxVocab)

HeapIdle ==
    /\ heap = <<>>
    /\ env = [v \in GraphVars |-> None]
    /\ pre = <<>>
    /\ lastOp = [kind |-> "none"]
    /\ nMerges = 0
    /\ answers = [v \in GraphVars |-> {}]
    /\ run = [pc |-> "idle"]

InitMatch ==
    /\ title \in Titles
    /\ drug_list \in Vocabularies
    /\ found = <<>>
    /\ mpc = "ready"
    /\ HeapIdle

\* one call find_drugs_in_title(title, drug_list)
Match ==
    /\ mpc = "ready"
    /\ found' = find_drugs_in_title(title, drug_list)
    /\ mpc' = "done"
    /\ UNCHANGED <<title, drug_list>>
    /\ UNCHANGED heapVars

NextMatch == Match

SpecMatch == InitMatch /\ [][NextMatch]_vars

(***************************************************************************)
(* Inputs of the index runs                                                *)
(***************************************************************************)
\* drugs_df['drug'].str.capitalize().tolist()
Drugs == <<<<"A">>, <<"B">>>>

Journals == {"J1", "J2"}

Date1 == [year |-> 2020, month |-> 1, day |-> 1]
Date2 == [year |-> 2021, month |-> 6, day |-> 25]

\* rows of a data frame: a title naming one drug, a title naming both, and,
\* in another journal, a title naming the second drug next to a longer word
\* that the first drug's name is only a part of
Records ==
    { [title |-> <<"a">>, journal |-> "J1", date |-> Date1],
      [title |-> <<"a", " ", "B">>, journal |-> "J1", date |-> Date2],
      [title |-> <<"a", "b", " ", "B">>, journal |-> "J2", date |-> Date2] }

DataFrames == StringsUpTo(Records, MaxRecords)

\* mentions of index literals
LitMentions ==
    { [title |-> <<"a">>, date |-> IsoFormat(Date1)],
      [title |-> <<"b">>, date |-> IsoFormat(Date2)] }

\* index literals as the tests of merge_mention_graphs write them and as
\* json.load returns them: the empty index, and an index with one drug, one
\* journal and one source tag holding one mention.  A literal is the nested
\* sequence of its items.
Literals ==
    {<<>>} \cup
    { << <<d, << <<j, << <<s, <<m>> >> >> >> >> >> >> :
          d \in Range(Drugs), j \in Journals, s \in SourceTags, m \in LitMentions }

\* the objects of a literal created at reference root
LiteralObjects(root, lit) ==
    LET top == root :> [i \in 1..Len(lit) |-> <<lit[i][1], Append(root, lit[i][1])>>]
        drugObj(i) ==
            LET r == Append(root, lit[i][1])
                js == lit[i][2]
            IN  r :> [k \in 1..Len(js) |-> <<js[k][1], Append(r, js[k][1])>>]
        journalObj(i, k) ==
            LET r == Append(Append(root, lit[i][1]), lit[i][2][k][1])
                ss == lit[i][2][k][2]
            IN  r :> [n \in 1..Len(ss) |-> <<ss[n][1], Append(r, ss[n][1])>>]
        listObj(i, k, n) ==
            LET r == Append(Append(Append(root, lit[i][1]), lit[i][2][k][1]),
                            lit[i][2][k][2][n][1])
            IN  r :> lit[i][2][k][2][n][2]
        RECURSIVE Join(_, _)
        Join(fs, acc) ==
            IF fs = {} THEN acc
            ELSE LET f == CHOOSE x \in fs : TRUE IN Join(fs \ {f}, acc @@ f)
    IN  Join({drugObj(i) : i \in 1..Len(lit)}
             \cup UNION {{journalObj(i, k) : k \in 1..Len(lit[i][2])} : i \in 1..Len(lit)}
             \cup UNION {UNION {{listObj(i, k, n) : n \in 1..Len(lit[i][2][k][2])}
                                : k \in 1..Len(lit[i][2])} : i \in 1..Len(lit)},
             top)

MatchIdle ==
    /\ title = <<>>
    /\ drug_list = <<>>
    /\ found = <<>>
    /\ mpc = "idle"

Init == MatchIdle /\ HeapIdle

\* v = json.load(f), or v = {...} in a test: a new index with no object shared
Load(v, lit) ==
    /\ env[v] = None
    /\ heap' = heap @@ LiteralObjects(<<v>>, lit)
    /\ env' = [env EXCEPT ![v] = <<v>>]
    /\ pre' = heap
    /\ lastOp' = [kind |-> "load", ret |-> <<v>>]
    /\ UNCHANGED nMerges
    /\ UNCHANGED <<matchVars, answers, run>>

\* v = process_mentions(df, drugs_list=drugs, source_name=source_name): when
\* the call raises, v is not assigned and the dict the call created is lost
Build(v, df, source_name) ==
    /\ env[v] = None
    /\ LET r == process_mentions(heap, df, Drugs, source_name, None, <<v>>)
       IN  /\ heap' = IF r.raised THEN heap ELSE r.h
           /\ env' = IF r.raised THEN env ELSE [env EXCEPT ![v] = r.ret]
           /\ lastOp' = [kind |-> "build", df |-> df, source_name |-> source_name,
                         raised |-> r.raised, exc |-> r.exc, ret |-> r.ret]
    /\ pre' = heap
    /\ UNCHANGED nMerges
    /\ UNCHANGED <<matchVars, answers, run>>

\* merge_mention_graphs(p, s) for two index variables p and s
Merge(p, s) ==
    /\ p # s
    /\ env[p] # None
    /\ env[s] # None
    /\ nMerges < MaxMerges
    /\ LET r == merge_mention_graphs(heap, env[p], env[s])
       IN  /\ heap' = r.h
           /\ lastOp' = [kind |-> "merge", graph_1 |-> env[p], graph_2 |-> env[s],
                         ret |-> r.ret]
    /\ pre' = heap
    /\ nMerges' = nMerges + 1
    /\ UNCHANGED env
    /\ UNCHANGED <<matchVars, answers, run>>

Next ==
    \/ \E v \in GraphVars, lit \in Literals : Load(v, lit)
    \/ \E v \in GraphVars, df \in DataFrames, source_name \in SourceTags :
           Build(v, df, source_name)
    \/ \E p \in GraphVars, s \in GraphVars : Merge(p, s)

Spec == Init /\ [][Next]_vars

(***************************************************************************)
(* Query runs: indices read from JSON files, then queried                  *)
(***************************************************************************)
\* drug keys of the queried indices: two that differ only in case, and another
QueryDrugs == {<<"A">>, <<"a">>, <<"B">>}

QueryMention == [title |-> <<"a">>, date |-> IsoFormat(Date1)]

\* journal entries: mentioned by PubMed only, by both sources, by trials
\* only, and an entry with the PubMed tag alone
QueryNodes ==
    { << <<"PubMed", <<QueryMention>> >>, <<"Clinical Trial", <<>> >> >>,
      << <<"PubMed", <<QueryMention>> >>, <<"Clinical Trial", <<QueryMention>> >> >>,
      << <<"PubMed", <<>> >>, <<"Clinical Trial", <<QueryMention>> >> >>,
      << <<"PubMed", <<QueryMention>> >> >> }

\* the literal lit with the entry of drug d and journal j set to node
PutNode(lit, d, j, node) ==
    IF Has(lit, d) THEN SetItem(lit, d, SetItem(Get(lit, d), j, node))
    ELSE Append(lit, <<d, << <<j, node>> >> >>)

RECURSIVE LiteralOf(_, _, _)
LiteralOf(puts, i, lit) ==
    IF i > Len(puts) THEN lit
    ELSE LiteralOf(puts, i + 1, PutNode(lit, puts[i][1], puts[i][2], puts[i][3]))

\* a journal entry as the builder leaves it after one PubMed mention
PubMedNode == << <<"PubMed", <<QueryMention>> >>, <<"Clinical Trial", <<>> >> >>

\* indices for the journal query, which reads keys only: at most MaxNodes
\* journal entries under the drug keys, in every insertion order; each drug
\* has at least one journal
JournalLiterals ==
    {LiteralOf(puts, 1, <<>>) :
         puts \in StringsUpTo(QueryDrugs \X Journals \X {PubMedNode}, MaxNodes)}

\* indices for the related-drugs query: at most MaxRelatedNodes journal
\* entries of every kind, in every insertion order
RelatedLiterals ==
    {LiteralOf(puts, 1, <<>>) :
         puts \in StringsUpTo(Range(Drugs) \X Journals \X QueryNodes, MaxRelatedNodes)}

Perms(n) == {p \in [1..n -> 1..n] : \A a, b \in 1..n : p[a] = p[b] => a = b}

\* the literals with the content of lit: its drugs in any order, and the
\* journals of each drug in any order
Reorderings(lit) ==
    LET n == Len(lit)
        inner(p) == {q \in [1..n -> UNION {Perms(m) : m \in 0..Cardinality(Journals)}] :
                        \A i \in 1..n : DOMAIN q[i] = 1..Len(lit[p[i]][2])}
        item(p, q, i) == <<lit[p[i]][1],
                           [k \in 1..Len(lit[p[i]][2]) |-> lit[p[i]][2][q[i][k]]]>>
    IN  UNION {{[i \in 1..n |-> item(p, q, i)] : q \in inner(p)} : p \in Perms(n)}

\* the literal of the index at ref: the nested sequence of its items
LiteralAt(h, ref) ==
    LET node(r) == [n \in 1..Len(h[r]) |-> <<h[r][n][1], h[h[r][n][2]]>>]
        drug(r) == [k \in 1..Len(h[r]) |-> <<h[r][k][1], node(h[r][k][2])>>]
    IN  [i \in 1..Len(h[ref]) |-> <<h[ref][i][1], drug(h[ref][i][2])>>]

\* w = json.load(f) of a file that holds the content of v with its keys in
\* some order
LoadReordered(v, w) ==
    /\ v # w
    /\ env[v] # None
    /\ env[w] = None
    /\ \E lit \in Reorderings(LiteralAt(heap, env[v])) : Load(w, lit)

\* v = json.load(f) of a file that holds an index
LoadIndex(v, literals) ==
    /\ env[v] = None
    /\ \E lit \in literals : Load(v, lit)

\* get_journal_with_most_unique_drugs(v)
QueryJournal(v) ==
    /\ env[v] # None
    /\ LET r == get_journal_with_most_unique_drugs(heap, env[v])
       IN  /\ heap' = r.h
           /\ lastOp' = [kind |-> "journal_query", graph |-> env[v],
                         raised |-> r.raised, ret |-> r.ret]
           /\ answers' = IF r.raised THEN answers
                         ELSE [answers EXCEPT ![v] = @ \cup {r.ret}]
    /\ pre' = heap
    /\ UNCHANGED <<env, nMerges>>
    /\ UNCHANGED <<matchVars, run>>

\* get_related_drugs_in_pubmed_only(v, target_drug)
QueryRelated(v, target_drug) ==
    /\ env[v] # None
    /\ LET r == get_related_drugs_in_pubmed_only(heap, env[v], target_drug)
       IN  /\ heap' = r.h
           /\ lastOp' = [kind |-> "related_query", graph |-> env[v],
                         target_drug |-> target_drug, raised |-> r.raised, ret |-> r.ret]
    /\ pre' = heap
    /\ UNCHANGED <<env, nMerges, answers>>
    /\ UNCHANGED <<matchVars, run>>

\* two files with the same content, each read and asked for its journal
NextQuery ==
    \/ LoadIndex("g1", JournalLiterals)
    \/ LoadReordered("g1", "g2")
    \/ \E v \in GraphVars : QueryJournal(v)

SpecQuery == Init /\ [][NextQuery]_vars

\* one file, read and asked both questions
NextRelated ==
    \/ LoadIndex("g1", RelatedLiterals)
    \/ QueryJournal("g1")
    \/ \E target_drug \in QueryDrugs : QueryRelated("g1", target_drug)

SpecRelated == Init /\ [][NextRelated]_vars

(***************************************************************************)
(* Claims about the matcher                                                *)
(***************************************************************************)
\* v occurs in t, compared case-insensitively, with a non-word character or
\* a string edge immediately before and immediately after the occurrence
OccursAsWholeWord(v, t) ==
    \E i \in 0..(Len(t) - Len(v)) :
        /\ Lower(SubSeq(t, i + 1, i + Len(v))) = Lower(v)
        /\ (i = 0 \/ ~IsWordChar(t[i]))
        /\ (i + Len(v) = Len(t) \/ ~IsWordChar(t[i + Len(v) + 1]))

\* C1: after find_drugs_in_title(title, drug_list), every vocabulary entry v
\* is in the result if and only if v occurs in the title, case-insensitively,
\* with a non-word character or a string edge on both sides of the occurrence.
C1_MatchIffWholeWord ==
    mpc = "done" =>
        \A k \in 1..Len(drug_list) :
            (drug_list[k] \in Range(found)) <=> OccursAsWholeWord(drug_list[k], title)

(***************************************************************************)
(* Claims about merge_mention_graphs.  After a merge, lastOp names the     *)
(* arguments and the returned reference, pre is the heap at the call and   *)
(* heap is the heap at the return.                                         *)
(***************************************************************************)
Merged == lastOp.kind = "merge"

\* the contents of primary and secondary at the call, and of the result
PrimaryBefore == GraphValue(pre, lastOp.graph_1)
SecondaryBefore == GraphValue(pre, lastOp.graph_2)
SecondaryAfter == GraphValue(heap, lastOp.graph_2)
Result == GraphValue(heap, lastOp.ret)

\* the keys of an index value at each level, an absent node having none
DrugKeys(g) == DOMAIN g
JournalKeys(g, d) == IF d \in DOMAIN g THEN DOMAIN g[d] ELSE {}
TagKeys(g, d, j) == IF j \in JournalKeys(g, d) THEN DOMAIN g[d][j] ELSE {}

HasLeaf(g, d, j, s) == s \in TagKeys(g, d, j)

\* the leaf list at (drug, journal, source tag), an absent leaf being empty
Leaf(g, d, j, s) == IF HasLeaf(g, d, j, s) THEN g[d][j][s] ELSE <<>>

\* every (drug, journal, source tag) that is a leaf of the value
LeafKeys(g) ==
    UNION {UNION {{<<d, j, s>> : s \in TagKeys(g, d, j)} : j \in JournalKeys(g, d)}
           : d \in DrugKeys(g)}

Count(m, xs) == Cardinality({i \in 1..Len(xs) : xs[i] = m})

\* C2: after merge(primary, secondary) the returned index and secondary share
\* no mutable object (no dict and no list), so that a later change in place of
\* one of them cannot show in the other.
C2_NoSharedSubtree ==
    Merged => Reach(heap, lastOp.ret) \cap Reach(heap, lastOp.graph_2) = {}

\* C3: merge(primary, secondary) leaves the content of secondary as it was at
\* the call, whatever builds and merges came before.
C3_SecondaryUnchanged ==
    Merged => SecondaryAfter = SecondaryBefore

\* in every leaf of c every mention occurs as often as in a's plus b's leaf
CountsAddUp(a, b, c) ==
    \A key \in LeafKeys(a) \cup LeafKeys(b) \cup LeafKeys(c) :
        LET la == Leaf(a, key[1], key[2], key[3])
            lb == Leaf(b, key[1], key[2], key[3])
            lc == Leaf(c, key[1], key[2], key[3])
        IN  \A m \in Range(la) \cup Range(lb) \cup Range(lc) :
                Count(m, lc) = Count(m, la) + Count(m, lb)

\* C4: in every leaf of the merged index every mention occurs as many times
\* as in primary's leaf plus secondary's leaf as they were at the call (an
\* absent leaf counting as empty): nothing is lost and nothing is invented.
C4_MergeComplete ==
    Merged => CountsAddUp(PrimaryBefore, SecondaryBefore, Result)

SomeLeafFromBoth(a, b, c) ==
    \E key \in LeafKeys(c) :
        LET la == Leaf(a, key[1], key[2], key[3])
            lb == Leaf(b, key[1], key[2], key[3])
            lc == Leaf(c, key[1], key[2], key[3])
        IN  la # <<>> /\ lb # <<>> /\ \E m \in Range(lc) : Count(m, lc) >= 2

C4_Witness ==
    Merged /\ SomeLeafFromBoth(PrimaryBefore, SecondaryBefore, Result)

\* every leaf a and b both have is, in c, a's list followed by b's list
SharedLeavesConcatenated(a, b, c) ==
    \A key \in LeafKeys(a) \cap LeafKeys(b) :
        Leaf(c, key[1], key[2], key[3]) =
            Leaf(a, key[1], key[2], key[3]) \o Leaf(b, key[1], key[2], key[3])

\* C5: a leaf that both inputs have is, in the merged index, primary's list
\* followed by secondary's list, nothing removed and nothing reordered.
C5_LeafConcatenation ==
    Merged => SharedLeavesConcatenated(PrimaryBefore, SecondaryBefore, Result)

SomeSharedLeafOrdered(a, b) ==
    \E key \in LeafKeys(a) \cap LeafKeys(b) :
        LET la == Leaf(a, key[1], key[2], key[3])
            lb == Leaf(b, key[1], key[2], key[3])
        IN  la # <<>> /\ lb # <<>> /\ la \o lb # lb \o la

C5_Witness ==
    Merged /\ SomeSharedLeafOrdered(PrimaryBefore, SecondaryBefore)

\* primary and secondary had no object in common at the call
SeparateBefore == Reach(pre, lastOp.graph_1) \cap Reach(pre, lastOp.graph_2) = {}

\* c has the keys of a, and every leaf of c is a's leaf followed by itself
Doubled(a, c) ==
    /\ LeafKeys(c) = LeafKeys(a)
    /\ DrugKeys(c) = DrugKeys(a)
    /\ \A d \in DrugKeys(c) : JournalKeys(c, d) = JournalKeys(a, d)
    /\ \A key \in LeafKeys(a) :
           LET la == Leaf(a, key[1], key[2], key[3])
               lc == Leaf(c, key[1], key[2], key[3])
           IN  Len(lc) = 2 * Len(la) /\ lc = la \o la

\* C6: merging an index with a separate index of identical content gives the
\* same drug, journal and source keys, and every leaf is the original list
\* followed by itself, so exactly twice as long.
C6_MergeWithCopyDoubles ==
    (Merged /\ SeparateBefore) =>
        LET a == PrimaryBefore
        IN  a = SecondaryBefore => Doubled(a, Result)

SomeLeafOfTwo(a) == \E key \in LeafKeys(a) : Len(Leaf(a, key[1], key[2], key[3])) = 2

C6_Witness ==
    /\ Merged /\ SeparateBefore /\ PrimaryBefore = SecondaryBefore
    /\ SomeLeafOfTwo(PrimaryBefore)

\* the keys of c are, at each of the three levels, the union of the keys of a
\* and b, and a tag only b has under a (drug, journal) of both has b's list
KeysAreUnion(a, b, c) ==
    /\ DrugKeys(c) = DrugKeys(a) \cup DrugKeys(b)
    /\ \A d \in DrugKeys(c) :
           /\ JournalKeys(c, d) = JournalKeys(a, d) \cup JournalKeys(b, d)
           /\ \A j \in JournalKeys(c, d) :
                  /\ TagKeys(c, d, j) = TagKeys(a, d, j) \cup TagKeys(b, d, j)
                  /\ \A s \in TagKeys(b, d, j) \ TagKeys(a, d, j) : c[d][j][s] = b[d][j][s]

\* C7: the drug keys of the merged index are the union of the inputs' drug
\* keys, under each drug the journal keys are the union of the inputs'
\* journal keys, and under each (drug, journal) the source tags are the union
\* of the inputs' tags; a tag only secondary has under a shared (drug,
\* journal) is added with secondary's list.
C7_KeyUnion ==
    Merged => KeysAreUnion(PrimaryBefore, SecondaryBefore, Result)

TagAddedNextToTags(a, b, c) ==
    /\ \E d \in DrugKeys(a) \cap DrugKeys(b) :
           \E j \in JournalKeys(a, d) \cap JournalKeys(b, d) :
               /\ TagKeys(a, d, j) # {}
               /\ TagKeys(b, d, j) \ TagKeys(a, d, j) # {}
               /\ Cardinality(TagKeys(c, d, j)) = 2
    /\ \E d \in DrugKeys(b) : d \notin DrugKeys(a)

C7_Witness ==
    Merged /\ TagAddedNextToTags(PrimaryBefore, SecondaryBefore, Result)

\* the empty index {}
EmptyIndex == <<>>

\* merging with {} on either side gives the other side
IdentityAt(a, b, bAfter, c) ==
    /\ a = EmptyIndex => (c = b /\ c = bAfter)
    /\ b = EmptyIndex => c = a
    /\ (a = EmptyIndex /\ b = EmptyIndex) => c = EmptyIndex

\* C8: merge({}, g) equals g, merge(g, {}) equals g, and merge({}, {}) is {}.
C8_EmptyIsIdentity ==
    Merged => IdentityAt(PrimaryBefore, SecondaryBefore, SecondaryAfter, Result)

C8_Witness ==
    /\ Merged
    /\ PrimaryBefore = EmptyIndex
    /\ LET b == SecondaryBefore
       IN  Cardinality(LeafKeys(b)) >= 2 /\ Result = b

(***************************************************************************)
(* Claims about process_mentions                                           *)
(***************************************************************************)
\* process_mentions was called without a base index and returned
BuiltFresh == lastOp.kind = "build" /\ ~lastOp.raised

\* the calendar date a 'YYYY-MM-DD' string denotes
DigitOf(c) == (CHOOSE i \in 1..10 : DigitChars[i] = c) - 1

IsDigit(c) == \E i \in 1..10 : DigitChars[i] = c

IsIsoDate(str) ==
    /\ Len(str) = 10
    /\ str[5] = "-" /\ str[8] = "-"
    /\ \A i \in {1, 2, 3, 4, 6, 7, 9, 10} : IsDigit(str[i])

ReadIso(str) ==
    [year |-> 1000 * DigitOf(str[1]) + 100 * DigitOf(str[2]) + 10 * DigitOf(str[3])
                  + DigitOf(str[4]),
     month |-> 10 * DigitOf(str[6]) + DigitOf(str[7]),
     day |-> 10 * DigitOf(str[9]) + DigitOf(str[10])]

IsList(x) == DOMAIN x = 1..Len(x)

\* every (drug, journal) node of g has exactly the two source tags, each a list
BothTagsEverywhere(g) ==
    \A d \in DrugKeys(g) : \A j \in JournalKeys(g, d) :
        /\ TagKeys(g, d, j) = {"PubMed", "Clinical Trial"}
        /\ \A s \in TagKeys(g, d, j) : IsList(g[d][j][s])

\* C9: after process_mentions has built an index from an empty one, every
\* (drug, journal) node has exactly the two source tags 'PubMed' and
\* 'Clinical Trial', each mapped to a list.
C9_BuilderShape ==
    BuiltFresh => BothTagsEverywhere(Result)

SomeNodeWithEmptyList(g) ==
    \E d \in DrugKeys(g) : \E j \in JournalKeys(g, d) :
        g[d][j]["PubMed"] = <<>> /\ g[d][j]["Clinical Trial"] # <<>>

C9_Witness ==
    BuiltFresh /\ SomeNodeWithEmptyList(Result)

\* the positions, in input order, of the records of df in journal j whose
\* title the matcher reports drug d for
Hits(df, d, j) ==
    LET hit(i) == df[i].journal = j /\ d \in Range(find_drugs_in_title(df[i].title, Drugs))
    IN  SelectSeq([i \in 1..Len(df) |-> i], hit)

\* g is what one scan of df builds under source tag s
BuiltFrom(g, df, s) ==
    \A d \in Range(Drugs) \cup DrugKeys(g) :
        \A j \in Journals \cup JournalKeys(g, d) :
            LET hits == Hits(df, d, j)
                leaf == Leaf(g, d, j, s)
            IN  /\ Len(leaf) = Len(hits)
                /\ (hits = <<>>) = (j \notin JournalKeys(g, d))
                /\ \A k \in 1..Len(hits) :
                       /\ leaf[k].title = df[hits[k]].title
                       /\ IsIsoDate(leaf[k].date)
                       /\ ReadIso(leaf[k].date) = df[hits[k]].date

\* C10: after process_mentions(df, drugs, source_name) the list at
\* [drug][journal][source_name] holds, in record order and with repetitions,
\* one mention for each record of that journal whose title the matcher
\* reports the drug for: the record's title as it is and the record's date
\* written 'YYYY-MM-DD'; a (drug, journal) with no such record has no node.
C10_BuildInRecordOrder ==
    BuiltFresh => BuiltFrom(Result, lastOp.df, lastOp.source_name)

SomeLeafOfTwoDistinct(g, s) ==
    \E d \in DrugKeys(g) : \E j \in JournalKeys(g, d) :
        LET leaf == Leaf(g, d, j, s)
        IN  Len(leaf) = 2 /\ leaf[1] # leaf[2]

C10_Witness ==
    BuiltFresh /\ SomeLeafOfTwoDistinct(Result, lastOp.source_name)

(***************************************************************************)
(* Claims about the order of the matcher's result                          *)
(***************************************************************************)
\* the entries of the vocabulary the title matches, in vocabulary order
MatchingEntries(t, drugs) ==
    LET matches(v) == ReSearchWord(Lower(v), Lower(t)) IN SelectSeq(drugs, matches)

\* the offset of the first occurrence of v in t, ignoring case
FirstOffset(v, t) ==
    CHOOSE i \in 0..Len(t) :
        /\ i + Len(v) <= Len(t) /\ Lower(SubSeq(t, i + 1, i + Len(v))) = Lower(v)
        /\ \A k \in 0..(i - 1) : Lower(SubSeq(t, k + 1, k + Len(v))) # Lower(v)

\* C11: find_drugs_in_title returns the matching entries in vocabulary order,
\* wherever they occur in the title: the result is the subsequence of the
\* vocabulary made of the matching entries.
C11_VocabularyOrder ==
    mpc = "done" => found = MatchingEntries(title, drug_list)

\* two entries reported in vocabulary order although the title has them in
\* the other order
C11_Witness ==
    /\ mpc = "done"
    /\ Len(found) = 2
    /\ found[1] # found[2]
    /\ FirstOffset(found[1], title) > FirstOffset(found[2], title)

(***************************************************************************)
(* Claims about the journal query                                          *)
(***************************************************************************)
JournalQueried == lastOp.kind = "journal_query" /\ ~lastOp.raised

\* the journals of the index content g
JournalsIn(g) == UNION {DOMAIN g[d] : d \in DOMAIN g}

\* the drug keys of g that have a node for journal j
DrugKeysOf(g, j) == {d \in DOMAIN g : j \in DOMAIN g[d]}

\* the number of distinct lowercased drug names that have a node for j
UniqueDrugs(g, j) == Cardinality({Lower(d) : d \in DrugKeysOf(g, j)})

PairIsMaximal(g, ret) ==
    /\ ret[1] \in JournalsIn(g)
    /\ ret[2] = UniqueDrugs(g, ret[1])
    /\ \A j \in JournalsIn(g) : UniqueDrugs(g, j) <= ret[2]

\* C12: get_journal_with_most_unique_drugs on a non-empty index returns a
\* pair (journal, count): count is the number of distinct lowercased drug
\* names with a node for that journal, keys differing only in case counting
\* once, and no journal of the index has a larger number.
C12_MostUniqueDrugs ==
    lastOp.kind = "journal_query" =>
        LET g == GraphValue(pre, lastOp.graph)
        IN  /\ DOMAIN g # {} => ~lastOp.raised
            /\ ~lastOp.raised => PairIsMaximal(g, lastOp.ret)

\* a pair returned for a journal under which two keys differ only in case
C12_Witness ==
    /\ JournalQueried
    /\ Cardinality(DrugKeysOf(GraphValue(pre, lastOp.graph), lastOp.ret[1])) > lastOp.ret[2]

\* the order of journal names
JournalRank == [j \in Journals |-> IF j = "J1" THEN 1 ELSE 2]

SmallestOfTied(g, ret) ==
    \A j \in JournalsIn(g) :
        UniqueDrugs(g, j) = ret[2] => JournalRank[ret[1]] <= JournalRank[j]

\* C13: when several journals tie on the maximum number of unique drugs, the
\* query returns the lexicographically smallest of the tied journal names,
\* whatever the insertion order of the index.
C13_TieBreakSmallest ==
    JournalQueried => SmallestOfTied(GraphValue(pre, lastOp.graph), lastOp.ret)

\* C14: two calls of the journal query on the same index return the same
\* pair, and two indices with equal content, built in a different insertion
\* order, yield the same pair.
C14_QueryDeterminism ==
    /\ \A v \in GraphVars : Cardinality(answers[v]) <= 1
    /\ \A v, w \in GraphVars :
           (env[v] # None /\ env[w] # None
            /\ GraphValue(heap, env[v]) = GraphValue(heap, env[w]))
           => Cardinality(answers[v] \cup answers[w]) <= 1

(***************************************************************************)
(* Claims about the related-drugs query                                    *)
(***************************************************************************)
\* the number of mentions of drug d in journal j under tag s in the content g
Mentions(g, d, j, s) ==
    IF d \in DOMAIN g /\ j \in DOMAIN g[d] /\ s \in DOMAIN g[d][j]
    THEN Len(g[d][j][s]) ELSE 0

\* j is PubMed-exclusive for d: at least one PubMed mention, no trial mention
PubMedExclusive(g, d, j) ==
    /\ Mentions(g, d, j, "PubMed") >= 1
    /\ Mentions(g, d, j, "Clinical Trial") = 0

\* the drugs other than target that share a PubMed-exclusive journal with it
RelatedTo(g, target) ==
    {d \in DOMAIN g \ {target} :
         \E j \in JournalsIn(g) : PubMedExclusive(g, target, j) /\ PubMedExclusive(g, d, j)}

\* C15: get_related_drugs_in_pubmed_only(index, target) returns exactly the
\* drugs D' other than target for which some journal J is PubMed-exclusive
\* both for target and for D'; for two drugs with one PubMed mention each and
\* no trial mention in J1, the query for the first returns the second.
C15_RelatedDrugs ==
    lastOp.kind = "related_query" =>
        /\ ~lastOp.raised
        /\ lastOp.ret = RelatedTo(GraphValue(pre, lastOp.graph), lastOp.target_drug)

\* the example: A and B with one PubMed mention each in J1, the query for A
\* returned {B}
C15_Witness ==
    /\ lastOp.kind = "related_query"
    /\ lastOp.target_drug = <<"A">>
    /\ LET g == GraphValue(pre, lastOp.graph)
       IN  /\ DOMAIN g = {<<"A">>, <<"B">>}
           /\ \A d \in DOMAIN g : /\ DOMAIN g[d] = {"J1"}
                                  /\ Mentions(g, d, "J1", "PubMed") = 1
                                  /\ Mentions(g, d, "J1", "Clinical Trial") = 0
    /\ lastOp.ret = {<<"B">>}

NothingRelated(g, target) ==
    \/ \A j \in JournalsIn(g) : ~PubMedExclusive(g, target, j)
    \/ \A j \in JournalsIn(g) :
           PubMedExclusive(g, target, j) =>
               \A d \in DOMAIN g \ {target} : ~PubMedExclusive(g, d, j)

\* C16: the related-drugs query returns the empty set, without raising, when
\* the target has no PubMed-exclusive journal (also when it is not a key of
\* the index) or when no other drug is PubMed-exclusive in any of the
\* target's PubMed-exclusive journals.
C16_EmptyWithoutRaising ==
    (lastOp.kind = "related_query"
     /\ NothingRelated(GraphValue(pre, lastOp.graph), lastOp.target_drug))
    => (~lastOp.raised /\ lastOp.ret = {})

\* the query answered for a target that is not a key of a non-empty index
C16_Witness ==
    /\ lastOp.kind = "related_query"
    /\ Keys(pre[lastOp.graph]) # {}
    /\ lastOp.target_drug \notin Keys(pre[lastOp.graph])
    /\ ~lastOp.raised
    /\ lastOp.ret = {}

SameIndex(before, after) ==
    /\ DOMAIN after = DOMAIN before
    /\ \A v \in GraphVars :
           env[v] # None => GraphValue(after, env[v]) = GraphValue(before, env[v])

\* C17: both queries are read-only: after a call of either query, for any
\* target drug, present or absent, the index has exactly the keys and leaf
\* lists it had before the call.
C17_QueriesReadOnly ==
    lastOp.kind \in {"journal_query", "related_query"} => SameIndex(pre, heap)

\* a query for an absent target, made after the journal query had answered
C17_Witness ==
    /\ lastOp.kind = "related_query"
    /\ lastOp.target_drug \notin Keys(heap[lastOp.graph])
    /\ \E v \in GraphVars : env[v] = lastOp.graph /\ answers[v] # {}

(***************************************************************************)
(* Builder runs with a base index                                          *)
(***************************************************************************)
\* frames that add one record at a time, and the empty frame
BaseFrames == {<<>>} \cup {<<row>> : row \in Records}

\* the number of mentions under the leaves keys of the index content g
RECURSIVE CountMentions(_, _)
CountMentions(g, keys) ==
    IF keys = {} THEN 0
    ELSE LET key == CHOOSE x \in keys : TRUE
         IN  Len(Leaf(g, key[1], key[2], key[3])) + CountMentions(g, keys \ {key})

\* a fresh build of one of the two indices
BuildBase(v) ==
    \E df \in BaseFrames, source_name \in SourceTags : Build(v, df, source_name)

\* the index at ref has room for more mentions
HasRoom(h, ref) ==
    LET g == GraphValue(h, ref) IN CountMentions(g, LeafKeys(g)) < MaxBaseMentions

\* process_mentions(df, drugs_list=drugs, source_name=source_name, graph=v)
BuildInto(v, df, source_name) ==
    /\ LET r == process_mentions(heap, df, Drugs, source_name, env[v], None)
       IN  /\ heap' = r.h
           /\ lastOp' = [kind |-> "build_into", df |-> df, source_name |-> source_name,
                         graph |-> env[v], raised |-> r.raised, exc |-> r.exc,
                         ret |-> r.ret]
    /\ pre' = heap
    /\ UNCHANGED <<env, nMerges, answers>>
    /\ UNCHANGED <<matchVars, run>>

NextBuild ==
    \/ \E v \in GraphVars : BuildBase(v)
    \/ /\ env["g1"] # None
       /\ HasRoom(heap, env["g1"])
       /\ \E df \in BaseFrames, source_name \in SourceTags : BuildInto("g1", df, source_name)

SpecBuild == Init /\ [][NextBuild]_vars

(***************************************************************************)
(* Claims about building into a base index                                 *)
(***************************************************************************)
\* the mentions the rows of df at positions hits add to a leaf
NewMentions(df, hits) ==
    [k \in 1..Len(hits) |-> [title |-> df[hits[k]].title,
                             date |-> IsoFormat(df[hits[k]].date)]]

\* c is a with the mentions of df added under source tag s: every leaf of a
\* is a prefix of the same leaf of c, and what follows it is what df adds
Accumulated(a, c, df, s) ==
    /\ LeafKeys(c) = LeafKeys(a) \cup
           {key \in Range(Drugs) \X Journals \X SourceTags :
                Hits(df, key[1], key[2]) # <<>> /\ key[2] \notin JournalKeys(a, key[1])}
    /\ \A key \in LeafKeys(c) :
           Leaf(c, key[1], key[2], key[3]) =
               Leaf(a, key[1], key[2], key[3]) \o
               (IF key[3] = s THEN NewMentions(df, Hits(df, key[1], key[2])) ELSE <<>>)

\* C18: process_mentions with a base index returns that index with every
\* mention it had, each leaf list keeping its previous elements as a prefix,
\* plus the mentions of the new records; without a base index the result has
\* only the mentions of the given records and is made of new objects, shared
\* with no other call.
C18_BaseIndexAccumulates ==
    /\ (lastOp.kind = "build_into" /\ ~lastOp.raised) =>
           /\ lastOp.ret = lastOp.graph
           /\ Accumulated(GraphValue(pre, lastOp.graph), GraphValue(heap, lastOp.ret),
                          lastOp.df, lastOp.source_name)
    /\ BuiltFresh =>
           /\ Accumulated(<<>>, GraphValue(heap, lastOp.ret), lastOp.df, lastOp.source_name)
           /\ Reach(heap, lastOp.ret) \cap DOMAIN pre = {}

\* a leaf that held a mention of the base index and got one more, while the
\* other index, built by another call, holds mentions of its own
C18_Witness ==
    /\ lastOp.kind = "build_into"
    /\ ~lastOp.raised
    /\ \E key \in LeafKeys(GraphValue(pre, lastOp.graph)) :
           /\ Len(Leaf(GraphValue(pre, lastOp.graph), key[1], key[2], key[3])) = 1
           /\ Len(Leaf(GraphValue(heap, lastOp.ret), key[1], key[2], key[3])) = 2
    /\ env["g2"] # None
    /\ LeafKeys(GraphValue(heap, env["g2"])) # {}

(***************************************************************************)
(* Builder runs on frames that lack a column                               *)
(***************************************************************************)
Columns == {"title", "journal", "date"}

\* a row whose title names no drug of the vocabulary
UnmatchedRecord == [title |-> <<"a", "b">>, journal |-> "J2", date |-> Date1]

\* df without column c
DropColumn(df, c) ==
    [r \in 1..Len(df) |-> [f \in DOMAIN df[r] \ {c} |-> df[r][f]]]

\* frames with all three columns, and the same frames with one column missing
FramesWithGaps ==
    LET whole == StringsUpTo(Records \cup {UnmatchedRecord}, MaxRecords)
    IN  whole \cup {DropColumn(df, c) : df \in whole, c \in Columns}

NextGaps ==
    \E df \in FramesWithGaps, source_name \in SourceTags : Build("g1", df, source_name)

SpecGaps == Init /\ [][NextGaps]_vars

\* some record of df lacks a required field
LacksField(df) == \E r \in 1..Len(df) : \E c \in Columns : c \notin DOMAIN df[r]

\* C20: a record lacking a required field (title, journal or date) makes
\* process_mentions fail with a MalformedRecordError; the record is not
\* silently skipped and the failure reaches the caller.
C20_MalformedRecordError ==
    (lastOp.kind = "build" /\ LacksField(lastOp.df))
    => (lastOp.raised /\ lastOp.exc = "MalformedRecordError")

(***************************************************************************)
(* parse_date                                                              *)
(***************************************************************************)
\* the value of a string of digits
RECURSIVE ToNat(_)
ToNat(f) ==
    IF f = <<>> THEN 0 ELSE 10 * ToNat(SubSeq(f, 1, Len(f) - 1)) + DigitOf(f[Len(f)])

AllDigits(f) == f # <<>> /\ \A i \in 1..Len(f) : IsDigit(f[i])

\* the month names %B reads, whatever the case of their letters
MonthNames ==
    << <<"J", "a", "n", "u", "a", "r", "y">>,
       <<"F", "e", "b", "r", "u", "a", "r", "y">>,
       <<"M", "a", "r", "c", "h">>,
       <<"A", "p", "r", "i", "l">>,
       <<"M", "a", "y">>,
       <<"J", "u", "n", "e">>,
       <<"J", "u", "l", "y">>,
       <<"A", "u", "g", "u", "s", "t">>,
       <<"S", "e", "p", "t", "e", "m", "b", "e", "r">>,
       <<"O", "c", "t", "o", "b", "e", "r">>,
       <<"N", "o", "v", "e", "m", "b", "e", "r">>,
       <<"D", "e", "c", "e", "m", "b", "e", "r">> >>

\* the number a directive reads from field f, 0 when f is not in the
\* directive's language: %d is 01..31, 1..9 or a space and 1..9; %m is 01..12
\* or 1..9; %Y is four digits; %B is a full month name
FieldValue(directive, f) ==
    CASE directive = "d" ->
             IF AllDigits(f) /\ Len(f) \in {1, 2} /\ ToNat(f) \in 1..31 THEN ToNat(f)
             ELSE IF Len(f) = 2 /\ f[1] = " " /\ IsDigit(f[2]) THEN ToNat(<<f[2]>>)
             ELSE 0
      [] directive = "m" ->
             IF AllDigits(f) /\ Len(f) \in {1, 2} /\ ToNat(f) \in 1..12 THEN ToNat(f) ELSE 0
      [] directive = "Y" ->
             IF AllDigits(f) /\ Len(f) = 4 THEN ToNat(f) ELSE 0
      [] directive = "B" ->
             IF \E k \in 1..12 : Lower(MonthNames[k]) = Lower(f)
             THEN CHOOSE k \in 1..12 : Lower(MonthNames[k]) = Lower(f)
             ELSE 0

IsLeap(year) == (year % 4 = 0 /\ year % 100 # 0) \/ year % 400 = 0

DaysIn(month, year) ==
    IF month = 2 THEN (IF IsLeap(year) THEN 29 ELSE 28)
    ELSE IF month \in {4, 6, 9, 11} THEN 30 ELSE 31

\* the years that lie wholly inside the range of pd.Timestamp
TimestampYears == 1678..2261

\* formats in which the second one reads the day before the month
FormatsYearDayMonth ==
    << [sep |-> "/", fields |-> <<"d", "m", "Y">>],
       [sep |-> "-", fields |-> <<"Y", "d", "m">>],
       [sep |-> " ", fields |-> <<"d", "B", "Y">>] >>

\* formats = ["%d/%m/%Y", "%Y-%m-%d", "%d %B %Y"]: three directives and the
\* character between them
Formats ==
    << [sep |-> "/", fields |-> <<"d", "m", "Y">>],
       [sep |-> "-", fields |-> <<"Y", "m", "d">>],
       [sep |-> " ", fields |-> <<"d", "B", "Y">>] >>

\* pd.to_datetime(date_str, format=fmt): the whole string must match the
\* format and name a date of the calendar; ok is FALSE for a ValueError
ToDatetime(date_str, fmt) ==
    LET n == Len(date_str)
        part(c, k) == CASE k = 1 -> SubSeq(date_str, 1, c[1] - 1)
                        [] k = 2 -> SubSeq(date_str, c[1] + 1, c[2] - 1)
                        [] k = 3 -> SubSeq(date_str, c[2] + 1, n)
        value(c, directive) ==
            LET k == CHOOSE i \in 1..3 : fmt.fields[i] = directive
            IN  FieldValue(directive, part(c, k))
        month(c) == IF "B" \in Range(fmt.fields) THEN value(c, "B") ELSE value(c, "m")
        cuts == {c \in (1..n) \X (1..n) :
                    /\ c[1] < c[2]
                    /\ date_str[c[1]] = fmt.sep
                    /\ date_str[c[2]] = fmt.sep
                    /\ value(c, "d") > 0
                    /\ month(c) > 0
                    /\ value(c, "Y") \in TimestampYears
                    /\ value(c, "d") <= DaysIn(month(c), value(c, "Y"))}
    IN  IF cuts = {} THEN [ok |-> FALSE, ret |-> None]
        ELSE LET c == CHOOSE x \in cuts : TRUE
             IN  [ok |-> TRUE,
                  ret |-> [year |-> value(c, "Y"), month |-> month(c), day |-> value(c, "d")]]

\* for fmt in formats, from the i-th format on: the first format that parses
\* the string gives the result, and ValueError leaves when none does
RECURSIVE FormatLoop(_, _)
\* try: return r, except ValueError: continue, r being what the i-th format gave
TryFormat(r, date_str, i) ==
    IF r.ok THEN [raised |-> FALSE, ret |-> r.ret] ELSE FormatLoop(date_str, i + 1)

FormatLoop(date_str, i) ==
    IF i > Len(Formats) THEN [raised |-> TRUE, ret |-> None]
    ELSE TryFormat(ToDatetime(date_str, Formats[i]), date_str, i)

\* a function that hands back the text when no format parses it
parse_date_or_text(date_str) ==
    LET r == FormatLoop(date_str, 1)
    IN  IF r.raised THEN [raised |-> FALSE, ret |-> date_str] ELSE r

parse_date(date_str) == FormatLoop(date_str, 1)

(***************************************************************************)
(* The pipeline of data_pipeline.py                                        *)
(***************************************************************************)
\* the upper-case letter of each lower-case letter
UpperOf == [c \in Range(LowerLetters) |->
               UpperLetters[CHOOSE i \in 1..Len(LowerLetters) : LowerLetters[i] = c]]

UpperChar(c) == IF c \in DOMAIN UpperOf THEN UpperOf[c] ELSE c

\* str.capitalize(): the first character upper-cased, the others lower-cased
Capitalize(str) ==
    [i \in 1..Len(str) |-> IF i = 1 THEN UpperChar(str[i]) ELSE LowerChar(str[i])]

\* the texts of the input files
AspirinTrial == <<"A", "s", "p", "i", "r", "i", "n", " ", "t", "r", "i", "a", "l">>
AspirinStudy == <<"A", "s", "p", "i", "r", "i", "n", " ", "s", "t", "u", "d", "y">>

RawTitles == {AspirinTrial, AspirinStudy}

\* dates in each of the three formats, and one in no format
RawDates ==
    { <<"0", "1", "/", "0", "1", "/", "2", "0", "2", "0">>,
      <<"2", "0", "2", "0", "-", "0", "1", "-", "0", "2">>,
      <<"1", " ", "J", "a", "n", "u", "a", "r", "y", " ", "2", "0", "2", "0">>,
      <<"2", "0", "2", "0", "/", "0", "1", "/", "0", "2">> }

\* drugs.csv: the drug column, written with or without its capital
RawDrugs == { <<<<"A", "s", "p", "i", "r", "i", "n">>>>, <<<<"a", "s", "p", "i", "r", "i", "n">>>> }

PubMedRows == [title : RawTitles, journal : {"J1"}, date : RawDates]

TrialRows == [scientific_title : RawTitles, journal : {"J1"}, date : RawDates]

\* step 1: load_data(data_dir)
LoadData ==
    /\ run.pc = "idle"
    /\ \E d \in RawDrugs, p \in StringsUpTo(PubMedRows, MaxRows),
          t \in StringsUpTo(TrialRows, MaxRows) :
           run' = [pc |-> "loaded", input |-> [drugs |-> d, pubmed |-> p, trials |-> t],
                   drugs_df |-> d, pubmed_df |-> p, clinical_trials_df |-> t]
    /\ UNCHANGED <<heap, env, pre, lastOp, nMerges, answers>>
    /\ UNCHANGED matchVars

\* rename(columns={'scientific_title': 'title'})
Rename(df) ==
    [r \in 1..Len(df) |-> [title |-> df[r].scientific_title, journal |-> df[r].journal,
                           date |-> df[r].date]]

\* drop_duplicates(subset='title'): the first row of each title stays
DropDuplicates(df) ==
    LET first(r) == \A k \in 1..(r - 1) : df[k].title # df[r].title
        kept == SelectSeq([r \in 1..Len(df) |-> r], first)
    IN  [i \in 1..Len(kept) |-> df[kept[i]]]

\* the rows whose date parsed, the others left out
WithDatesSkipping(df, parsed) ==
    LET good(r) == ~parsed[r].raised
        kept == SelectSeq([r \in 1..Len(df) |-> r], good)
    IN  [raised |-> FALSE,
         ret |-> [i \in 1..Len(kept) |-> [df[kept[i]] EXCEPT !.date = parsed[kept[i]].ret]]]

\* the date column of df replaced by parsed, the results of parse_date for
\* its rows: raised when parse_date raised for some row
WithDates(df, parsed) ==
    IF \E r \in 1..Len(df) : parsed[r].raised
    THEN [raised |-> TRUE, ret |-> None]
    ELSE [raised |-> FALSE,
          ret |-> [r \in 1..Len(df) |-> [df[r] EXCEPT !.date = parsed[r].ret]]]

\* df['date'] = df['date'].apply(parse_date)
ParseDates(df) == WithDates(df, [r \in 1..Len(df) |-> parse_date(df[r].date)])

\* what preprocess_data returns for the capitalized drugs and the two frames
\* with their dates parsed, or the ValueError of parse_date
Preprocessed(drugs, pubmed, trials) ==
    IF pubmed.raised \/ trials.raised
    THEN [raised |-> TRUE, exc |-> "ValueError"]
    ELSE [raised |-> FALSE, exc |-> "none", drugs_df |-> drugs,
          pubmed_df |-> pubmed.ret, clinical_trials_df |-> trials.ret]

\* preprocess_data(drugs_df, pubmed_df, clinical_trials_df)
preprocess_data(drugs_df, pubmed_df, clinical_trials_df) ==
    Preprocessed([i \in 1..Len(drugs_df) |-> Capitalize(drugs_df[i])],
                 ParseDates(DropDuplicates(pubmed_df)),
                 ParseDates(DropDuplicates(Rename(clinical_trials_df))))

\* the run after preprocess_data gave r
AfterPreprocess(r) ==
    IF r.raised
    THEN [pc |-> "failed", input |-> run.input, exc |-> r.exc]
    ELSE [run EXCEPT !.pc = "preprocessed", !.drugs_df = r.drugs_df,
                     !.pubmed_df = r.pubmed_df,
                     !.clinical_trials_df = r.clinical_trials_df]

\* step 2: the frames are replaced by the preprocessed ones, or the run ends
\* with the exception of parse_date
Preprocess ==
    /\ run.pc = "loaded"
    /\ run' = AfterPreprocess(preprocess_data(run.drugs_df, run.pubmed_df,
                                              run.clinical_trials_df))
    /\ UNCHANGED <<heap, env, pre, lastOp, nMerges, answers>>
    /\ UNCHANGED matchVars

\* step 3: v = process_mentions(df, drugs_list=drugs, source_name=source_name)
\* with drugs = drugs_df['drug'].tolist()
Process(v, df, source_name, from, to) ==
    /\ run.pc = from
    /\ LET r == process_mentions(heap, df, run.drugs_df, source_name, None, <<v>>)
       IN  /\ heap' = r.h
           /\ env' = [env EXCEPT ![v] = r.ret]
           /\ lastOp' = [kind |-> "process", source_name |-> source_name,
                         raised |-> r.raised, exc |-> r.exc, ret |-> r.ret]
    /\ pre' = heap
    /\ run' = [run EXCEPT !.pc = to]
    /\ UNCHANGED <<nMerges, answers>>
    /\ UNCHANGED matchVars

ProcessPubMed == Process("g1", run.pubmed_df, "PubMed", "preprocessed", "pubmed_done")

ProcessTrials ==
    Process("g2", run.clinical_trials_df, "Clinical Trial", "pubmed_done", "trials_done")

\* mentions_graph = merge_mention_graphs(pubmed_mentions_graph, trials_mentions_graph)
MergeGraphs ==
    /\ run.pc = "trials_done"
    /\ LET r == merge_mention_graphs(heap, env["g1"], env["g2"])
       IN  /\ heap' = r.h
           /\ lastOp' = [kind |-> "pipeline_merge", graph_1 |-> env["g1"],
                         graph_2 |-> env["g2"], ret |-> r.ret]
           /\ run' = [pc |-> "merged", input |-> run.input, mentions_graph |-> r.ret]
    /\ pre' = heap
    /\ UNCHANGED <<env, nMerges, answers>>
    /\ UNCHANGED matchVars

NextPipeline ==
    \/ LoadData
    \/ Preprocess
    \/ ProcessPubMed
    \/ ProcessTrials
    \/ MergeGraphs

SpecPipeline == Init /\ [][NextPipeline]_vars

(***************************************************************************)
(* Claim about a whole run                                                 *)
(***************************************************************************)
\* the inputs of the scenario: one drug, one PubMed record and one trial
ScenarioInput ==
    [drugs |-> <<<<"A", "s", "p", "i", "r", "i", "n">>>>,
     pubmed |-> <<[title |-> AspirinTrial, journal |-> "J1",
                   date |-> <<"0", "1", "/", "0", "1", "/", "2", "0", "2", "0">>]>>,
     trials |-> <<[scientific_title |-> AspirinStudy, journal |-> "J1",
                   date |-> <<"2", "0", "2", "0", "-", "0", "1", "-", "0", "2">>]>>]

ScenarioIndex ==
    <<"A", "s", "p", "i", "r", "i", "n">> :>
        ("J1" :>
            ("PubMed" :> <<[title |-> AspirinTrial,
                            date |-> <<"2", "0", "2", "0", "-", "0", "1", "-", "0", "1">>]>>
             @@ "Clinical Trial" :> <<[title |-> AspirinStudy,
                                       date |-> <<"2", "0", "2", "0", "-", "0", "1", "-", "0", "2">>]>>))

\* C19: with vocabulary ['Aspirin'], the PubMed record ('Aspirin trial', J1,
\* '01/01/2020') and the trial record ('Aspirin study', J1, '2020-01-02'),
\* the run parses the dates, builds one index per source, merges them, and
\* ends with exactly {Aspirin: {J1: {PubMed: [('Aspirin trial',
\* '2020-01-01')], Clinical Trial: [('Aspirin study', '2020-01-02')]}}}.
C19_EndToEnd ==
    (run.pc \in {"failed", "merged"} /\ run.input = ScenarioInput)
    => (run.pc = "merged" /\ GraphValue(heap, run.mentions_graph) = ScenarioIndex)

\* the run of the scenario has merged its two indices
C19_Witness ==
    /\ run.pc = "merged"
    /\ run.input = ScenarioInput

(***************************************************************************)
(* Builder runs that fail part-way into a base index                       *)
(***************************************************************************)
\* one-record frames, whole or with one column missing, and the empty frame
IncrementFrames ==
    BaseFrames \cup {DropColumn(df, c) : df \in BaseFrames, c \in Columns}

\* a base index read from a file or built from a frame, then built into
NextAtomic ==
    \/ LoadIndex("g1", Literals)
    \/ BuildBase("g1")
    \/ /\ env["g1"] # None
       /\ HasRoom(heap, env["g1"])
       /\ \E df \in IncrementFrames, source_name \in SourceTags :
              BuildInto("g1", df, source_name)

SpecAtomic == Init /\ [][NextAtomic]_vars

\* C21: a build fails atomically: if process_mentions raises while it
\* processes some record, the base index passed to it is in the state it had
\* before the call.
C21_BuildFailsAtomically ==
    (lastOp.kind = "build_into" /\ lastOp.raised)
    => GraphValue(heap, lastOp.graph) = GraphValue(pre, lastOp.graph)

(***************************************************************************)
(* A run of the DAG drug_mentions_pipeline_v2 under the Airflow scheduler   *)
(***************************************************************************)
\* default_args['retries']
Retries == 3

DummyTasks == {"start_task", "end_task"}

\* the tasks of the DAG and, for each, the tasks directly upstream of it
Upstream ==
    [start_task |-> {},
     load_and_process_drugs |-> {"start_task"},
     load_and_process_pubmed |-> {"start_task"},
     load_and_process_trials |-> {"start_task"},
     process_pubmed_mentions |-> {"load_and_process_drugs", "load_and_process_pubmed"},
     process_clinical_trials_mentions |->
         {"load_and_process_drugs", "load_and_process_trials"},
     merge_pubmed_and_trials_mentions |->
         {"process_pubmed_mentions", "process_clinical_trials_mentions"},
     draw_graph |-> {"merge_pubmed_and_trials_mentions"},
     clean_up_intermediate_files |-> {"merge_pubmed_and_trials_mentions"},
     end_task |-> {"draw_graph", "clean_up_intermediate_files"}]

Tasks == DOMAIN Upstream

\* the scheduler creates the run (schedule_interval "@once"): one task
\* instance per task, none of them tried yet
TriggerRun ==
    /\ run.pc = "idle"
    /\ run' = [pc |-> "dag", ti |-> [t \in Tasks |-> [state |-> "none", tries |-> 0]]]
    /\ UNCHANGED <<heap, env, pre, lastOp, nMerges, answers>>
    /\ UNCHANGED matchVars

\* the run with the task instance of t set to ti
WithTask(t, ti) == [run EXCEPT !.ti[t] = ti]

SetTask(t, ti) ==
    /\ run' = WithTask(t, ti)
    /\ UNCHANGED <<heap, env, pre, lastOp, nMerges, answers>>
    /\ UNCHANGED matchVars

\* trigger rule all_success: t starts, for the first time or for a retry,
\* once every task upstream of it has succeeded
StartTask(t) ==
    /\ run.pc = "dag"
    /\ run.ti[t].state \in {"none", "up_for_retry"}
    /\ \A u \in Upstream[t] : run.ti[u].state = "success"
    /\ SetTask(t, [state |-> "running", tries |-> run.ti[t].tries + 1])

\* the callable of t returns
Succeed(t) ==
    /\ run.pc = "dag"
    /\ run.ti[t].state = "running"
    /\ SetTask(t, [run.ti[t] EXCEPT !.state = "success"])

\* the callable of t raises, or its worker is lost: the task is tried again
\* while it has retries left
Fail(t) ==
    /\ run.pc = "dag"
    /\ t \notin DummyTasks
    /\ run.ti[t].state = "running"
    /\ SetTask(t, [run.ti[t] EXCEPT
                       !.state = IF run.ti[t].tries <= Retries THEN "up_for_retry"
                                 ELSE "failed"])

\* trigger rule all_success: a task below a failed task will not run
UpstreamFailed(t) ==
    /\ run.pc = "dag"
    /\ run.ti[t].state = "none"
    /\ \E u \in Upstream[t] : run.ti[u].state \in {"failed", "upstream_failed"}
    /\ SetTask(t, [run.ti[t] EXCEPT !.state = "upstream_failed"])

NextDag ==
    \/ TriggerRun
    \/ \E t \in Tasks : StartTask(t)
    \/ \E t \in Tasks : Succeed(t)
    \/ \E t \in Tasks : Fail(t)
    \/ \E t \in Tasks : UpstreamFailed(t)

SpecDag == Init /\ [][NextDag]_vars

\* C22: in every run the merge step starts only after both per-source builds
\* have completed successfully, and it executes exactly once per run, also
\* when tasks fail and the scheduler retries them.
C22_MergeBarrierOnce ==
    run.pc = "dag" =>
        LET merge == run.ti["merge_pubmed_and_trials_mentions"]
        IN  /\ merge.tries > 0 =>
                   /\ run.ti["process_pubmed_mentions"].state = "success"
                   /\ run.ti["process_clinical_trials_mentions"].state = "success"
            /\ merge.tries <= 1

(***************************************************************************)
(* The two ProcessMentionsOperator tasks of the DAG, run side by side, and  *)
(* the merge task that reads what they wrote                                *)
(***************************************************************************)
\* json.dump(graph, f): the content of the index at ref, keys in insertion order
Dump(h, ref) ==
    LET sources(j) == [n \in 1..Len(h[j]) |-> <<h[j][n][1], h[h[j][n][2]]>>]
        journals(d) == [k \in 1..Len(h[d]) |-> <<h[d][k][1], sources(h[d][k][2])>>]
    IN  [i \in 1..Len(h[ref]) |-> <<h[ref][i][1], journals(h[ref][i][2])>>]

\* source_name of the task that builds for v
TaskSource(v) == IF v = "g1" THEN "PubMed" ELSE "Clinical Trial"

\* f'{source_name.lower().replace(" ", "_")}_mentions.json'
OutputFile(source_name) ==
    IF source_name = "PubMed" THEN "pubmed_mentions.json"
    ELSE "clinical_trial_mentions.json"

\* both tasks working on one dict
TaskGraphShared(v) == <<"g1">>

\* the dict "graph = {}" that the call of the task for v creates
TaskGraph(v) == <<v>>

\* the two processed frames are on disk and the two tasks are scheduled
StartTasks ==
    /\ run.pc = "idle"
    /\ \E pubmed_df \in DataFrames, trials_df \in DataFrames :
           run' = [pc |-> "tasks",
                   df |-> [g1 |-> pubmed_df, g2 |-> trials_df],
                   row |-> [v \in GraphVars |-> 0],
                   files |-> <<>>,
                   interleaved |-> FALSE]
    /\ UNCHANGED <<heap, env, pre, lastOp, nMerges, answers>>
    /\ UNCHANGED matchVars

\* the task for v is between its first and its last step
Building(v) == run.row[v] > 0 /\ run.row[v] <= Len(run.df[v]) + 1

Other(v) == CHOOSE w \in GraphVars : w # v

\* the task for v takes a step while the other task is at work
Stepped(v, row) ==
    [run EXCEPT !.row[v] = row, !.interleaved = @ \/ Building(Other(v))]

\* execute calls process_mentions without an index: graph = {}
BeginBuild(v) ==
    /\ run.pc = "tasks"
    /\ run.row[v] = 0
    /\ heap' = Alloc(heap, TaskGraph(v), <<>>)
    /\ run' = Stepped(v, 1)
    /\ UNCHANGED <<env, pre, lastOp, nMerges, answers>>
    /\ UNCHANGED matchVars

\* one turn of "for _, row in df.iterrows()" in the task for v
StepRow(v) ==
    /\ run.pc = "tasks"
    /\ run.row[v] > 0
    /\ run.row[v] <= Len(run.df[v])
    /\ heap' = RowLoop([h |-> heap, raised |-> FALSE, exc |-> "none"], TaskGraph(v),
                       <<run.df[v][run.row[v]]>>, Drugs, 1, TaskSource(v)).h
    /\ run' = Stepped(v, run.row[v] + 1)
    /\ UNCHANGED <<env, pre, lastOp, nMerges, answers>>
    /\ UNCHANGED matchVars

\* the task for v returns from process_mentions and writes its file
FinishBuild(v) ==
    /\ run.pc = "tasks"
    /\ run.row[v] = Len(run.df[v]) + 1
    /\ run' = [Stepped(v, run.row[v] + 1) EXCEPT
                   !.files = (OutputFile(TaskSource(v)) :> Dump(heap, TaskGraph(v))) @@ @]
    /\ UNCHANGED <<heap, env, pre, lastOp, nMerges, answers>>
    /\ UNCHANGED matchVars

\* json.load of the two files, merge_mention_graphs, json.dump of the result
MergeFiles(pubmed_file, trials_file) ==
    LET h == LiteralObjects(<<"pubmed_mentions_graph">>, pubmed_file)
             @@ LiteralObjects(<<"trials_mentions_graph">>, trials_file)
        r == merge_mention_graphs(h, <<"pubmed_mentions_graph">>,
                                  <<"trials_mentions_graph">>)
    IN  Dump(r.h, r.ret)

\* the merge task, once both tasks upstream of it have succeeded
MergeTask ==
    /\ run.pc = "tasks"
    /\ \A v \in GraphVars : run.row[v] = Len(run.df[v]) + 2
    /\ run' = [run EXCEPT
                   !.pc = "tasks_merged",
                   !.files = ("merged_mentions_graph.json" :>
                                  MergeFiles(@["pubmed_mentions.json"],
                                             @["clinical_trial_mentions.json"])) @@ @]
    /\ UNCHANGED <<heap, env, pre, lastOp, nMerges, answers>>
    /\ UNCHANGED matchVars

NextTasks ==
    \/ StartTasks
    \/ \E v \in GraphVars : BeginBuild(v)
    \/ \E v \in GraphVars : StepRow(v)
    \/ \E v \in GraphVars : FinishBuild(v)
    \/ MergeTask

SpecTasks == Init /\ [][NextTasks]_vars

\* the file a build of df for source_name writes when it runs alone
BuiltAlone(df, source_name) ==
    LET r == process_mentions(<<>>, df, Drugs, source_name, None, <<"alone">>)
    IN  Dump(r.h, r.ret)

\* C23: the two per-source builds share no mutable state: however their steps
\* interleave, each writes the index it writes when it runs alone, and the
\* merged index is the merge of those two.
C23_BuildsIndependent ==
    run.pc \in {"tasks", "tasks_merged"} =>
        /\ \A v \in GraphVars :
               OutputFile(TaskSource(v)) \in DOMAIN run.files =>
                   run.files[OutputFile(TaskSource(v))]
                       = BuiltAlone(run.df[v], TaskSource(v))
        /\ "merged_mentions_graph.json" \in DOMAIN run.files =>
               run.files["merged_mentions_graph.json"]
                   = MergeFiles(BuiltAlone(run.df["g1"], "PubMed"),
                                BuiltAlone(run.df["g2"], "Clinical Trial"))

\* both builds found mentions, their steps interleaved, and the merge ran
C23_Witness ==
    /\ run.pc = "tasks_merged"
    /\ run.interleaved
    /\ run.files["pubmed_mentions.json"] # <<>>
    /\ run.files["clinical_trial_mentions.json"] # <<>>

(***************************************************************************)
(* Calls of parse_date on date texts                                        *)
(***************************************************************************)
\* what stands between the separators of a date text: days, months and years
\* in digits, months in letters
DateFields ==
    { <<"0", "1">>,
      <<"1">>,
      <<"1", "3">>,
      <<"3", "1">>,
      <<"2", "0", "2", "0">>,
      <<"2", "0">>,
      <<"J", "a", "n", "u", "a", "r", "y">>,
      <<"f", "e", "b", "r", "u", "a", "r", "y">>,
      <<"J", "a", "n">> }

DateSeparators == {"/", "-", " "}

\* date texts of three fields
DateTexts ==
    {a \o <<sep>> \o b \o <<sep>> \o c :
         a \in DateFields, b \in DateFields, c \in DateFields, sep \in DateSeparators}

\* a caller has a date text at hand
GiveDate ==
    /\ run.pc = "idle"
    /\ \E date_str \in DateTexts : run' = [pc |-> "date_given", date_str |-> date_str]
    /\ UNCHANGED <<heap, env, pre, lastOp, nMerges, answers>>
    /\ UNCHANGED matchVars

\* one call parse_date(date_str)
ParseDate ==
    /\ run.pc = "date_given"
    /\ run' = [pc |-> "date_parsed", date_str |-> run.date_str,
               result |-> parse_date(run.date_str)]
    /\ UNCHANGED <<heap, env, pre, lastOp, nMerges, answers>>
    /\ UNCHANGED matchVars

NextDates ==
    \/ GiveDate
    \/ ParseDate

SpecDates == Init /\ [][NextDates]_vars

\* DD/MM/YYYY, YYYY-MM-DD and 'D Month YYYY', in the order of the statement
StatedFormats ==
    << [sep |-> "/", fields |-> <<"d", "m", "Y">>],
       [sep |-> "-", fields |-> <<"Y", "m", "d">>],
       [sep |-> " ", fields |-> <<"d", "B", "Y">>] >>

\* the stated formats that parse date_str
Parsing(date_str) == {i \in 1..3 : ToDatetime(date_str, StatedFormats[i]).ok}

FirstParsing(date_str) ==
    CHOOSE i \in Parsing(date_str) : \A k \in Parsing(date_str) : i <= k

\* C24: parse_date tries DD/MM/YYYY, YYYY-MM-DD and 'D Month YYYY' in that
\* order and returns the date of the first format that parses the text; a
\* text that no format parses, such as 01-01-2020, makes it fail with an
\* error instead of returning a value.
C24_FirstFormatOrError ==
    run.pc = "date_parsed" =>
        IF Parsing(run.date_str) = {}
        THEN run.result.raised
        ELSE /\ ~run.result.raised
             /\ run.result.ret
                    = ToDatetime(run.date_str, StatedFormats[FirstParsing(run.date_str)]).ret

\* parse_date was called on 01-01-2020 and raised
C24_Witness ==
    /\ run.pc = "date_parsed"
    /\ run.date_str = <<"0", "1", "-", "0", "1", "-", "2", "0", "2", "0">>
    /\ run.result.raised

(***************************************************************************)
(* Runs of the pipeline on sources of several records, some of them with a  *)
(* date in no format                                                        *)
(***************************************************************************)
\* a date in the first format and a date in no format
DatedTexts ==
    { <<"0", "1", "/", "0", "1", "/", "2", "0", "2", "0">>,
      <<"2", "0", "2", "0", "/", "0", "1", "/", "0", "2">> }

DatedPubMedRows == [title : RawTitles, journal : {"J1"}, date : DatedTexts]

DatedTrialRows == [scientific_title : RawTitles, journal : {"J1"}, date : DatedTexts]

\* step 1: load_data(data_dir)
LoadDatedData ==
    /\ run.pc = "idle"
    /\ \E p \in StringsUpTo(DatedPubMedRows, MaxDatedRows),
          t \in StringsUpTo(DatedTrialRows, MaxDatedRows) :
           LET d == <<<<"a", "s", "p", "i", "r", "i", "n">>>>
           IN  run' = [pc |-> "loaded", input |-> [drugs |-> d, pubmed |-> p, trials |-> t],
                       drugs_df |-> d, pubmed_df |-> p, clinical_trials_df |-> t]
    /\ UNCHANGED <<heap, env, pre, lastOp, nMerges, answers>>
    /\ UNCHANGED matchVars

NextDated ==
    \/ LoadDatedData
    \/ Preprocess
    \/ ProcessPubMed
    \/ ProcessTrials
    \/ MergeGraphs

SpecDated == Init /\ [][NextDated]_vars

\* parse_date raises for the date of row r of df
Unparsed(df, r) == parse_date(df[r].date).raised

\* some record of a source, among those that reach the parsing of dates,
\* has a date that fails to parse
DateFails(input) ==
    \/ \E r \in 1..Len(DropDuplicates(input.pubmed)) :
           Unparsed(DropDuplicates(input.pubmed), r)
    \/ \E r \in 1..Len(DropDuplicates(Rename(input.trials))) :
           Unparsed(DropDuplicates(Rename(input.trials)), r)

\* C25: there is no partial success: when the date of any record fails to
\* parse, the run fails; the builder never runs on the part of the source
\* that parsed, and neither a per-source index nor a merged index is made.
C25_NoPartialSuccess ==
    ("input" \in DOMAIN run /\ DateFails(run.input)) =>
        /\ run.pc \in {"loaded", "failed"}
        /\ \A v \in GraphVars : env[v] = None
        /\ heap = <<>>
        /\ "mentions_graph" \notin DOMAIN run

\* the run failed on a PubMed source of two records, the first with a date
\* that parses, the second with a date that does not
C25_Witness ==
    /\ run.pc = "failed"
    /\ Len(DropDuplicates(run.input.pubmed)) = 2
    /\ ~Unparsed(run.input.pubmed, 1)
    /\ Unparsed(run.input.pubmed, 2)

(***************************************************************************)
(* More claims about merge_mention_graphs and process_mentions              *)
(***************************************************************************)
\* C26: merge_mention_graphs works in place on its first argument and
\* returns it: the returned index is the object graph_1, so that after the
\* call graph_1 has the content of the returned index.
C26_MergeInPlace ==
    Merged =>
        /\ lastOp.ret = lastOp.graph_1
        /\ GraphValue(heap, lastOp.graph_1) = Result

\* the merge added something to its first argument
C26_Witness ==
    /\ Merged
    /\ lastOp.ret = lastOp.graph_1
    /\ GraphValue(heap, lastOp.graph_1) # PrimaryBefore
    /\ SecondaryBefore # EmptyIndex

\* C27: merge_mention_graphs keeps the shape of the index: when every
\* (drug, journal) node of both arguments maps both source tags to a list,
\* so does every node of the result.
C27_MergeKeepsShape ==
    (Merged /\ BothTagsEverywhere(PrimaryBefore) /\ BothTagsEverywhere(SecondaryBefore))
    => BothTagsEverywhere(Result)

\* two indices of that shape with a node in common were merged
C27_Witness ==
    /\ Merged
    /\ BothTagsEverywhere(PrimaryBefore)
    /\ BothTagsEverywhere(SecondaryBefore)
    /\ LeafKeys(PrimaryBefore) \cap LeafKeys(SecondaryBefore) # {}
    /\ PrimaryBefore # SecondaryBefore

\* g holds nothing but what the records of df give under source tag s
Provenance(g, df, s) ==
    \A d \in DrugKeys(g) :
        /\ d \in Range(Drugs)
        /\ \A j \in JournalKeys(g, d) :
               /\ \A k \in 1..Len(Leaf(g, d, j, s)) :
                      \E r \in 1..Len(df) :
                          /\ df[r].journal = j
                          /\ OccursAsWholeWord(d, df[r].title)
                          /\ Leaf(g, d, j, s)[k].title = df[r].title
                          /\ IsIsoDate(Leaf(g, d, j, s)[k].date)
                          /\ ReadIso(Leaf(g, d, j, s)[k].date) = df[r].date
               /\ \A other \in TagKeys(g, d, j) \ {s} : g[d][j][other] = <<>>

\* C28: in an index built from an empty one with source tag s, every drug
\* key is an entry of the vocabulary, every mention under [drug][journal][s]
\* has the title and the date of some input record of that journal whose
\* title matches the drug, and the list of the other tag is empty in every
\* node.
C28_BuildProvenance ==
    BuiltFresh => Provenance(Result, lastOp.df, lastOp.source_name)

\* a build from a record whose title names one drug as a word and holds the
\* other drug's name only inside a longer word
C28_Witness ==
    /\ BuiltFresh
    /\ \E r \in 1..Len(lastOp.df) :
           /\ ReSearchAnywhere(<<"a">>, Lower(lastOp.df[r].title))
           /\ ~OccursAsWholeWord(<<"A">>, lastOp.df[r].title)
           /\ OccursAsWholeWord(<<"B">>, lastOp.df[r].title)
    /\ Result # EmptyIndex

(***************************************************************************)
(* More claims about the queries                                            *)
(***************************************************************************)
\* C29: get_journal_with_most_unique_drugs called on an empty index (no drug
\* keys) returns no (journal, count) pair: it fails with an error, the
\* maximum being taken over an empty collection of journals.
C29_EmptyIndexRaises ==
    (lastOp.kind = "journal_query" /\ Keys(pre[lastOp.graph]) = {})
    => (lastOp.raised /\ lastOp.ret = None)

\* the journal query was asked of an empty index and raised
C29_Witness ==
    /\ lastOp.kind = "journal_query"
    /\ GraphValue(pre, lastOp.graph) = EmptyIndex
    /\ lastOp.raised

\* what the related-drugs query returns for target on the index as it is now
RelatedNow(target_drug) ==
    get_related_drugs_in_pubmed_only(heap, lastOp.graph, target_drug).ret

\* C30: the relation get_related_drugs_in_pubmed_only computes is symmetric
\* and irreflexive: for drugs A and B that are keys of the index, B is in the
\* result for target A if and only if A is in the result for target B, and
\* no drug is in its own result.
C30_RelationSymmetric ==
    (lastOp.kind = "related_query" /\ lastOp.target_drug \in Keys(heap[lastOp.graph]))
    => /\ ~lastOp.raised
       /\ lastOp.target_drug \notin lastOp.ret
       /\ \A B \in Keys(heap[lastOp.graph]) :
              (B \in lastOp.ret) <=> (lastOp.target_drug \in RelatedNow(B))

\* the query for one key returned the other key, whose own result holds
\* the first key
C30_Witness ==
    /\ lastOp.kind = "related_query"
    /\ lastOp.target_drug \in Keys(heap[lastOp.graph])
    /\ \E B \in Keys(heap[lastOp.graph]) \ {lastOp.target_drug} :
           B \in lastOp.ret /\ lastOp.target_drug \in RelatedNow(B)

====
